---- MODULE Spec2Model ----
(***************************************************************************)
(* Model of custom_components/enpal/sensor.py: the value parser, the table *)
(* extractor and the shared fetch-and-cache manager _EnpalData, driven by  *)
(* several EnpalSensor entities on one asyncio event loop.                 *)
(*                                                                         *)
(* One action is one run of a coroutine from a suspension point to the     *)
(* next: asyncio is cooperative, so code between two awaits is atomic.     *)
(* Text is a sequence of one-character strings.  A float is the exact      *)
(* decimal <<m, e>> = m * 10^(-e) with no trailing zero in m; None is the  *)
(* empty sequence.                                                         *)
(***************************************************************************)
EXTENDS Integers, Sequences, FiniteSets, TLC

\* ------------------------------------------------------------------------
\* Bounds of the model and program constants
\* ------------------------------------------------------------------------
NumTasks == 2

MaxTime == 62

SCAN_INTERVAL == 60

FetchTimeout == 15

\* Longest cell text handed to _parse_value on its own.
MaxCellLen == 5

\* Most rows in a document handed to _parse_device_messages_html on its own.
MaxRows == 3

TTL == SCAN_INTERVAL \div 2

Tasks == 1..NumTasks

\* Amounts by which monotonic() is seen to advance between two steps.
TickSteps == {TTL \div 2, TTL + 1}

NoneVal == << >>

NoneUnit == << >>

\* ------------------------------------------------------------------------
\* _parse_value: the two regular expressions, matched as re matches them
\* ------------------------------------------------------------------------
IsDigit(c) == c \in {"0", "1", "2", "3", "4", "5", "6", "7", "8", "9"}

IsSpace(c) == c \in {" ", "\t", "\n"}

DigitVal(c) == CHOOSE d \in 0..9 : <<"0", "1", "2", "3", "4", "5", "6", "7", "8", "9">>[d + 1] = c

\* First index j >= i at which s stops being digits (Len(s) + 1 at the end): \d+ is greedy.
EndOfDigits(s, i) ==
    CHOOSE j \in i..(Len(s) + 1) :
        /\ \A k \in i..(j - 1) : IsDigit(s[k])
        /\ (j = Len(s) + 1 \/ ~IsDigit(s[j]))

\* The same for \s*.
EndOfSpaces(s, i) ==
    CHOOSE j \in i..(Len(s) + 1) :
        /\ \A k \in i..(j - 1) : IsSpace(s[k])
        /\ (j = Len(s) + 1 \/ ~IsSpace(s[j]))

\* The same for [^\d\s]+.
EndOfUnit(s, i) ==
    CHOOSE j \in i..(Len(s) + 1) :
        /\ \A k \in i..(j - 1) : ~IsDigit(s[k]) /\ ~IsSpace(s[k])
        /\ (j = Len(s) + 1 \/ IsDigit(s[j]) \/ IsSpace(s[j]))

\* [-+]?\d+(?:\.\d+)? matched greedily from index i: the index after the
\* match, or 0 when there is none.
MatchNumber(s, i) ==
    LET a == IF i <= Len(s) /\ s[i] \in {"-", "+"} THEN i + 1 ELSE i
        b == EndOfDigits(s, a)
    IN  IF a > Len(s) \/ b = a THEN 0
        ELSE IF b + 1 <= Len(s) /\ s[b] = "." /\ IsDigit(s[b + 1])
             THEN EndOfDigits(s, b + 1)
             ELSE b

RECURSIVE DigitsVal(_, _, _)
\* The number written by the digits s[a..b-1].
DigitsVal(s, a, b) ==
    IF b <= a THEN 0 ELSE 10 * DigitsVal(s, a, b - 1) + DigitVal(s[b - 1])

RECURSIVE Pow10(_)
Pow10(n) == IF n = 0 THEN 1 ELSE 10 * Pow10(n - 1)

RECURSIVE Normalise(_, _)
Normalise(m, e) ==
    IF m = 0 THEN <<0, 0>>
    ELSE IF e > 0 /\ m % 10 = 0 THEN Normalise(m \div 10, e - 1)
    ELSE <<m, e>>

\* float(s[i..j-1]) for a string the number pattern matched.
ToFloat(s, i, j) ==
    LET neg == s[i] = "-"
        a == IF s[i] \in {"-", "+"} THEN i + 1 ELSE i
        b == EndOfDigits(s, a)
        fl == IF b < j THEN j - (b + 1) ELSE 0
        mag == DigitsVal(s, a, b) * Pow10(fl) + (IF b < j THEN DigitsVal(s, b + 1, j) ELSE 0)
    IN  Normalise(IF neg THEN 0 - mag ELSE mag, fl)

\* value / 1000
DivThousand(v) == Normalise(v[1], v[2] + 3)

\* _NUMBER_IN_PAREN.search(text): the index of the "(" of the match, or 0.
NumberInParen(text) ==
    LET close == CHOOSE j \in 0..Len(text) :
                     /\ \A k \in (j + 1)..Len(text) : IsSpace(text[k])
                     /\ (j = 0 \/ ~IsSpace(text[j]))
        opens == {i \in 1..Len(text) :
                     /\ text[i] = "("
                     /\ close > i
                     /\ text[close] = ")"
                     /\ MatchNumber(text, i + 1) = close}
    IN  IF opens = {} THEN 0 ELSE CHOOSE i \in opens : \A k \in opens : i <= k

\* _NUMBER_WITH_UNIT.match(text): <<start, end>> of group 1 and <<start, end>>
\* of group 2 (end exclusive; <<0, 0>> for an absent group 2), or << >> when
\* the pattern does not match.  Every quantifier is greedy and nothing it
\* gives back helps the rest to match, so the greedy split is the match.
\* "." does not match a newline; "$" matches at the end or before a final one.
NumberWithUnit(text) ==
    LET n == Len(text)
        a == EndOfSpaces(text, 1)
        b == MatchNumber(text, a)
        c == EndOfSpaces(text, b)
        d == EndOfUnit(text, c)
    IN  IF b = 0 THEN << >>
        ELSE IF \E k \in d..(n - 1) : text[k] = "\n" THEN << >>
        ELSE <<<<a, b>>, IF d > c THEN <<c, d>> ELSE <<0, 0>>>>

_parse_value(text) ==
    LET p == NumberInParen(text)
        close == CHOOSE j \in 0..Len(text) :
                     /\ \A k \in (j + 1)..Len(text) : IsSpace(text[k])
                     /\ (j = 0 \/ ~IsSpace(text[j]))
        g == NumberWithUnit(text)
    IN  IF p # 0 THEN <<ToFloat(text, p + 1, close), NoneUnit>>
        ELSE IF g # << >>
             THEN <<ToFloat(text, g[1][1], g[1][2]),
                    IF g[2] = <<0, 0>> THEN NoneUnit
                    ELSE SubSeq(text, g[2][1], g[2][2] - 1)>>
        ELSE <<NoneVal, NoneUnit>>

\* ------------------------------------------------------------------------
\* _parse_device_messages_html.  A document is the tree BeautifulSoup gives:
\* a sequence of tables, each [tbody |-> BOOLEAN, rows |-> sequence of rows],
\* a row being the sequence of the texts of its td cells.
\* ------------------------------------------------------------------------
\* get_text(strip=True)
Strip(text) ==
    LET keep == {k \in 1..Len(text) : ~IsSpace(text[k])}
    IN  IF keep = {} THEN << >>
        ELSE SubSeq(text, CHOOSE k \in keep : \A j \in keep : k <= j,
                          CHOOSE k \in keep : \A j \in keep : k >= j)

EmptyMap == [k \in {} |-> << >>]

\* data[name] = (value, unit)
Put(data, name, reading) ==
    [k \in (DOMAIN data) \cup {name} |-> IF k = name THEN reading ELSE data[k]]

\* Mutant: a row whose value is None is stored too.
ParseRow_KeepsNull(data, tds) ==
    IF Len(tds) < 2 THEN data
    ELSE LET name == Strip(tds[1])
             reading == _parse_value(Strip(tds[2]))
             isWh == reading[2] = <<"W", "h">> /\ reading[1] # NoneVal
             value == IF isWh THEN DivThousand(reading[1]) ELSE reading[1]
             unit == IF isWh THEN <<"k", "W", "h">> ELSE reading[2]
         IN  Put(data, name, <<value, unit>>)

\* Mutant: the unit is rewritten to kWh and the value left as it was.
ParseRow_RenamesOnly(data, tds) ==
    IF Len(tds) < 2 THEN data
    ELSE LET name == Strip(tds[1])
             reading == _parse_value(Strip(tds[2]))
             isWh == reading[2] = <<"W", "h">> /\ reading[1] # NoneVal
             unit == IF isWh THEN <<"k", "W", "h">> ELSE reading[2]
         IN  IF reading[1] = NoneVal THEN data ELSE Put(data, name, <<reading[1], unit>>)

\* Mutant: a name that is already in the mapping keeps its first reading.
ParseRow_FirstWins(data, tds) ==
    IF Len(tds) < 2 THEN data
    ELSE LET name == Strip(tds[1])
             reading == _parse_value(Strip(tds[2]))
             isWh == reading[2] = <<"W", "h">> /\ reading[1] # NoneVal
             value == IF isWh THEN DivThousand(reading[1]) ELSE reading[1]
             unit == IF isWh THEN <<"k", "W", "h">> ELSE reading[2]
         IN  IF value = NoneVal \/ name \in DOMAIN data THEN data
             ELSE Put(data, name, <<value, unit>>)

\* The body of the loop over tr, lines 148-164.
ParseRow(data, tds) ==
    IF Len(tds) < 2 THEN data
    ELSE LET name == Strip(tds[1])
             parsed == _parse_value(Strip(tds[2]))
             isWh == parsed[2] = <<"W", "h">> /\ parsed[1] # NoneVal
             value == IF isWh THEN DivThousand(parsed[1]) ELSE parsed[1]
             unit == IF isWh THEN <<"k", "W", "h">> ELSE parsed[2]
         IN  IF value = NoneVal THEN data ELSE Put(data, name, <<value, unit>>)

RECURSIVE ParseRows(_, _)
ParseRows(data, rows) ==
    IF rows = << >> THEN data
    ELSE ParseRows(ParseRow(data, Head(rows)), Tail(rows))

RECURSIVE ParseTables(_, _)
ParseTables(data, tables) ==
    IF tables = << >> THEN data
    ELSE ParseTables(IF Head(tables).tbody THEN ParseRows(data, Head(tables).rows) ELSE data,
                     Tail(tables))

_parse_device_messages_html(html) == ParseTables(EmptyMap, html)

\* ------------------------------------------------------------------------
\* The inverter's answers
\* ------------------------------------------------------------------------
\* A page with one row whose value is not a number: no reading in it.
DocEmpty ==
    <<[tbody |-> TRUE,
       rows |-> <<<<<<"S", "e", "r", "i", "a", "l">>, <<"n", "/", "a">>>>>>]>>

DocA ==
    <<[tbody |-> TRUE,
       rows |-> <<<<<<"P", "o", "w", "e", "r">>,
                    <<"2", "3", "6", "6", ".", "3", "5", " ", "W">>>>>>]>>

DocB ==
    <<[tbody |-> TRUE,
       rows |-> <<<<<<"E", "n", "e", "r", "g", "y">>,
                    <<"1", "5", "0", "0", "W", "h">>>>>>]>>

Bodies == {DocEmpty, DocA, DocB}

Statuses == {200, 500}

ExceptionKinds == {"timeout", "connection_error", "decode_error"}

NoReply == [kind |-> "none", status |-> 0, body |-> << >>]

Replies ==
    {[kind |-> "response", status |-> st, body |-> b] : st \in Statuses, b \in Bodies}
        \cup {[kind |-> k, status |-> 0, body |-> << >>] : k \in ExceptionKinds}

\* ------------------------------------------------------------------------
\* State
\* ------------------------------------------------------------------------
VARIABLES
    clock,       \* monotonic()
    cache,       \* _EnpalData._cache
    last_fetch,  \* _EnpalData._last_fetch
    locked,      \* _EnpalData._lock: asyncio.Lock._locked
    waiters,     \* _EnpalData._lock: asyncio.Lock._waiters, first come first
    pc,          \* where each sensor's async_update stands
    reply,       \* what the network has delivered to a task awaiting its GET
    seen,        \* the mapping the sensor read from fetcher.data when its call returned
    res,         \* history: what became of the GET this call dispatched, if any
    lastGetAt,   \* history: when the most recent GET was dispatched, -1 for never
    goodGetAt,   \* history: when the most recent GET that stored readings was dispatched
    everStored,  \* history: some fetch has replaced the cache
    text,        \* the argument of a call of _parse_value
    parsed,      \* <<value, unit>> as that call returned it, << >> before it returns
    html,        \* the argument of a call of _parse_device_messages_html
    extracted,   \* <<the mapping that call returned>>, << >> before it returns
    flow         \* the config flow: its step, self.data, errors, and the probe's answer

\* The variables outside the fetcher: the calls of the two pure functions on
\* their own, and the config flow.
pvars == <<text, parsed, html, extracted, flow>>

vars == <<clock, cache, last_fetch, locked, waiters, pc, reply, seen, res,
          lastGetAt, goodGetAt, everStored, text, parsed, html, extracted, flow>>

\* The form as async_step_user first shows it: no input, no error, no probe.
\* reply, ok and raised are those of the last probe.
NoFlow ==
    [step |-> "form", ip |-> << >>, errors |-> "", reply |-> NoReply,
     ok |-> FALSE, raised |-> FALSE]

NoCall ==
    /\ text = << >>
    /\ parsed = << >>
    /\ html = << >>
    /\ extracted = << >>
    /\ flow = NoFlow

Init ==
    /\ clock = 0
    /\ cache = EmptyMap
    /\ last_fetch = 0
    /\ locked = FALSE
    /\ waiters = << >>
    /\ pc = [t \in Tasks |-> "idle"]
    /\ reply = [t \in Tasks |-> NoReply]
    /\ seen = [t \in Tasks |-> EmptyMap]
    /\ res = [t \in Tasks |-> "none"]
    /\ lastGetAt = -1
    /\ goodGetAt = -1
    /\ everStored = FALSE
    /\ NoCall

\* ------------------------------------------------------------------------
\* _EnpalData.async_update, called by EnpalSensor.async_update
\* ------------------------------------------------------------------------
\* Mutant: the whole polling interval taken for the TTL.
Fresh_FullInterval == DOMAIN cache # {} /\ clock - last_fetch < SCAN_INTERVAL

\* Mutant: the age comparison turned round.
Fresh_Inverted == DOMAIN cache # {} /\ clock - last_fetch > TTL

\* Mutant: the age alone decides, an empty cache counts as fresh too.
Fresh_AgeOnly == clock - last_fetch < TTL

\* self._cache and now - self._last_fetch < self._ttl
Fresh == DOMAIN cache # {} /\ clock - last_fetch < TTL

\* Mutant: no mutual exclusion.
CanAcquire_Always == TRUE

\* asyncio.Lock.acquire takes the lock at once only when it is free and nobody queues.
CanAcquire == ~locked /\ waiters = << >>

\* Mutant: release resolves nobody's future.
WakeFirst_Nobody(p, w) == p

\* asyncio.Lock.release: the first waiter's future is resolved.
WakeFirst(p, w) ==
    [u \in Tasks |-> IF w # << >> /\ u = Head(w) /\ p[u] = "waiting" THEN "woken" ELSE p[u]]

\* Leaving "async with self._lock" and async_update; the sensor then reads fetcher.data.
ExitLocked(t, how, w) ==
    /\ locked' = FALSE
    /\ pc' = WakeFirst([pc EXCEPT ![t] = how], w)
    /\ seen' = [seen EXCEPT ![t] = IF how = "returned" THEN cache' ELSE @]

\* Mutant: no second look at the cache once the lock is held.
LockedSection_NoRecheck(t, w) ==
    /\ locked' = TRUE
    /\ pc' = [pc EXCEPT ![t] = "fetching"]
    /\ res' = [res EXCEPT ![t] = "pending"]
    /\ lastGetAt' = clock
    /\ seen' = [seen EXCEPT ![t] = EmptyMap]
    /\ UNCHANGED <<cache, last_fetch>>

\* Mutant: the second look finds the cache fresh and stamps the time anew.
LockedSection_RecheckStamps(t, w) ==
    IF Fresh
    THEN /\ cache' = cache
         /\ last_fetch' = clock
         /\ lastGetAt' = lastGetAt
         /\ res' = [res EXCEPT ![t] = "none"]
         /\ ExitLocked(t, "returned", w)
    ELSE /\ locked' = TRUE
         /\ pc' = [pc EXCEPT ![t] = "fetching"]
         /\ res' = [res EXCEPT ![t] = "pending"]
         /\ lastGetAt' = clock
         /\ seen' = [seen EXCEPT ![t] = EmptyMap]
         /\ UNCHANGED <<cache, last_fetch>>

\* Lines 215-224, run with the lock held: the second look at the cache, then the GET.
LockedSection(t, w) ==
    IF Fresh
    THEN /\ UNCHANGED <<cache, last_fetch, lastGetAt>>
         /\ res' = [res EXCEPT ![t] = "none"]
         /\ ExitLocked(t, "returned", w)
    ELSE /\ locked' = TRUE
         /\ pc' = [pc EXCEPT ![t] = "fetching"]
         /\ res' = [res EXCEPT ![t] = "pending"]
         /\ lastGetAt' = clock
         /\ seen' = [seen EXCEPT ![t] = EmptyMap]
         /\ UNCHANGED <<cache, last_fetch>>

\* The call starts and runs to its first suspension: lines 207-224.
Begin(t) ==
    /\ pc[t] \in {"idle", "returned"}
    /\ IF Fresh
       THEN /\ pc' = [pc EXCEPT ![t] = "returned"]
            /\ seen' = [seen EXCEPT ![t] = cache]
            /\ res' = [res EXCEPT ![t] = "none"]
            /\ UNCHANGED <<cache, last_fetch, locked, waiters, lastGetAt>>
       ELSE IF CanAcquire
            THEN /\ LockedSection(t, waiters)
                 /\ UNCHANGED waiters
            ELSE /\ pc' = [pc EXCEPT ![t] = "waiting"]
                 /\ waiters' = Append(waiters, t)
                 /\ seen' = [seen EXCEPT ![t] = EmptyMap]
                 /\ res' = [res EXCEPT ![t] = "none"]
                 /\ UNCHANGED <<cache, last_fetch, locked, lastGetAt>>
    /\ UNCHANGED <<clock, reply, goodGetAt, everStored, pvars>>

\* A woken waiter takes the lock and runs lines 215-224.
Resume(t) ==
    /\ pc[t] = "woken"
    /\ waiters' = SelectSeq(waiters, LAMBDA u : u # t)
    /\ LockedSection(t, waiters')
    /\ UNCHANGED <<clock, reply, goodGetAt, everStored, pvars>>

\* session.get and resp.text(): the network answers, or the 15 s timeout expires.
Respond(t, r) ==
    /\ pc[t] = "fetching"
    /\ reply[t] = NoReply
    /\ IF r.kind = "timeout"
       THEN clock - lastGetAt >= FetchTimeout
       ELSE clock - lastGetAt <= FetchTimeout
    /\ reply' = [reply EXCEPT ![t] = r]
    /\ UNCHANGED <<clock, cache, last_fetch, locked, waiters, pc, seen, res,
                   lastGetAt, goodGetAt, everStored, pvars>>

\* What makes session.get or resp.text() raise; the status is never looked at.
Raises(r) == r.kind \in ExceptionKinds

\* Mutant: only aiohttp's own errors caught.
Caught_ClientErrorOnly(r) == r.kind = "connection_error"

\* except Exception: every one of these is an Exception.
Caught(r) == r.kind \in {"timeout", "connection_error", "decode_error"}

\* Mutant: a failed fetch stamps the time as a successful one does.
FailPath_Stamps(t) ==
    /\ cache' = cache
    /\ last_fetch' = clock
    /\ res' = [res EXCEPT ![t] = reply[t].kind]
    /\ ExitLocked(t, "returned", waiters)
    /\ UNCHANGED <<goodGetAt, everStored>>

\* Mutant: the failure path returns with the lock still held.
FailPath_KeepsLock(t) ==
    /\ cache' = cache
    /\ last_fetch' = last_fetch
    /\ res' = [res EXCEPT ![t] = reply[t].kind]
    /\ locked' = TRUE
    /\ pc' = [pc EXCEPT ![t] = "returned"]
    /\ seen' = [seen EXCEPT ![t] = cache]
    /\ UNCHANGED <<goodGetAt, everStored>>

\* Lines 225-227, and the exception leaving the function if it were not caught.
FailPath(t) ==
    /\ cache' = cache
    /\ last_fetch' = last_fetch
    /\ res' = [res EXCEPT ![t] = reply[t].kind]
    /\ ExitLocked(t, IF Caught(reply[t]) THEN "returned" ELSE "raised", waiters)
    /\ UNCHANGED <<goodGetAt, everStored>>

\* Mutant: the cache is replaced but the time is not stamped.
StorePath_NoStamp(t) ==
    /\ cache' = _parse_device_messages_html(reply[t].body)
    /\ last_fetch' = last_fetch
    /\ res' = [res EXCEPT ![t] = IF DOMAIN cache' = {} THEN "empty" ELSE "rows"]
    /\ goodGetAt' = IF DOMAIN cache' = {} THEN goodGetAt ELSE lastGetAt
    /\ everStored' = TRUE
    /\ ExitLocked(t, "returned", waiters)

\* Mutant: the new rows are merged into the old mapping (dict.update).
StorePath_Merges(t) ==
    /\ cache' = ParseTables(cache, reply[t].body)
    /\ last_fetch' = clock
    /\ res' = [res EXCEPT ![t] = IF DOMAIN cache' = {} THEN "empty" ELSE "rows"]
    /\ goodGetAt' = IF DOMAIN cache' = {} THEN goodGetAt ELSE lastGetAt
    /\ everStored' = TRUE
    /\ ExitLocked(t, "returned", waiters)

\* Lines 229-230.
StorePath(t) ==
    /\ cache' = _parse_device_messages_html(reply[t].body)
    /\ last_fetch' = clock
    /\ res' = [res EXCEPT ![t] = IF DOMAIN cache' = {} THEN "empty" ELSE "rows"]
    /\ goodGetAt' = IF DOMAIN cache' = {} THEN goodGetAt ELSE lastGetAt
    /\ everStored' = TRUE
    /\ ExitLocked(t, "returned", waiters)

\* The task resumes from the await of its GET: lines 224-230.
FetchDone(t) ==
    /\ pc[t] = "fetching"
    /\ reply[t] # NoReply
    /\ IF Raises(reply[t]) THEN FailPath(t) ELSE StorePath(t)
    /\ reply' = [reply EXCEPT ![t] = NoReply]
    /\ UNCHANGED <<clock, waiters, lastGetAt, pvars>>

\* Time passes.
Tick(d) ==
    /\ clock + d <= MaxTime
    /\ clock' = clock + d
    /\ UNCHANGED <<cache, last_fetch, locked, waiters, pc, reply, seen, res,
                   lastGetAt, goodGetAt, everStored, pvars>>

Next ==
    \/ \E t \in Tasks : Begin(t)
    \/ \E t \in Tasks : Resume(t)
    \/ \E t \in Tasks : \E r \in Replies : Respond(t, r)
    \/ \E t \in Tasks : FetchDone(t)
    \/ \E d \in TickSteps : Tick(d)

Spec == Init /\ [][Next]_vars

\* FetchDone(t) can happen: the task's GET has been answered.
FetchDoneReady(t) == pc[t] = "fetching" /\ reply[t] # NoReply

\* The event loop runs every task that is ready (a woken waiter, a task whose
\* GET has been answered), and every GET is answered or times out; nothing
\* makes a sensor call again.  Only FetchDone(t) ends FetchDoneReady(t), and
\* it can happen exactly then, so the last conjunct is WF_vars(FetchDone(t)).
Fairness ==
    \A t \in Tasks :
        /\ WF_vars(Resume(t))
        /\ WF_vars(\E r \in Replies : Respond(t, r))
        /\ []<>~FetchDoneReady(t)

SpecLive == Init /\ [][Next]_vars /\ Fairness

\* ------------------------------------------------------------------------
\* N calls issued together on a stale instance: a new instance, or one whose
\* readings are TTL old.  Each sensor calls once; every call has started
\* before time passes or the network answers.
\* ------------------------------------------------------------------------
BurstAt == TTL

InitBurst ==
    /\ clock = BurstAt
    /\ last_fetch = 0
    /\ locked = FALSE
    /\ waiters = << >>
    /\ pc = [t \in Tasks |-> "idle"]
    /\ reply = [t \in Tasks |-> NoReply]
    /\ seen = [t \in Tasks |-> EmptyMap]
    /\ res = [t \in Tasks |-> "none"]
    /\ NoCall
    /\ \/ /\ cache = EmptyMap
          /\ lastGetAt = -1
          /\ goodGetAt = -1
          /\ everStored = FALSE
       \/ /\ cache = _parse_device_messages_html(DocA)
          /\ lastGetAt = 0
          /\ goodGetAt = 0
          /\ everStored = TRUE

BeginOnce(t) == pc[t] = "idle" /\ Begin(t)

RespondBurst(t, r) == (\A u \in Tasks : pc[u] # "idle") /\ Respond(t, r)

TickBurst(d) == (\A t \in Tasks : pc[t] # "idle") /\ Tick(d)

NextBurst ==
    \/ \E t \in Tasks : BeginOnce(t)
    \/ \E t \in Tasks : Resume(t)
    \/ \E t \in Tasks : \E r \in Replies : RespondBurst(t, r)
    \/ \E t \in Tasks : FetchDone(t)
    \/ \E d \in TickSteps : TickBurst(d)

SpecBurst == InitBurst /\ [][NextBurst]_vars

\* ------------------------------------------------------------------------
\* The data property, read by a consumer that is not inside a call of its own
\* (async_setup_entry at line 253, a sensor between two updates).
\* ------------------------------------------------------------------------
\* Mutant: the read waits until no refresh holds the lock.
ReadData_WaitsForLock(t) ==
    /\ pc[t] \in {"idle", "returned"}
    /\ ~locked
    /\ seen' = [seen EXCEPT ![t] = cache]
    /\ UNCHANGED <<clock, cache, last_fetch, locked, waiters, pc, reply, res,
                   lastGetAt, goodGetAt, everStored, pvars>>

\* return self._cache
ReadData(t) ==
    /\ pc[t] \in {"idle", "returned"}
    /\ seen' = [seen EXCEPT ![t] = cache]
    /\ UNCHANGED <<clock, cache, last_fetch, locked, waiters, pc, reply, res,
                   lastGetAt, goodGetAt, everStored, pvars>>

NextRead ==
    \/ Next
    \/ \E t \in Tasks : ReadData(t)

SpecRead == Init /\ [][NextRead]_vars

\* ------------------------------------------------------------------------
\* _parse_value called on its own, on every short cell text over an alphabet
\* with a digit, the point, a sign, both kinds of whitespace, a unit letter
\* and the two brackets.  The texts are the ones get_text(strip=True) hands
\* over: nothing to strip at either end.
\* ------------------------------------------------------------------------
Chars == {"2", ".", "-", " ", "\n", "W", "(", ")"}

Idle ==
    /\ clock = 0
    /\ cache = EmptyMap
    /\ last_fetch = 0
    /\ locked = FALSE
    /\ waiters = << >>
    /\ pc = [t \in Tasks |-> "idle"]
    /\ reply = [t \in Tasks |-> NoReply]
    /\ seen = [t \in Tasks |-> EmptyMap]
    /\ res = [t \in Tasks |-> "none"]
    /\ lastGetAt = -1
    /\ goodGetAt = -1
    /\ everStored = FALSE

InitParse ==
    /\ Idle
    /\ \E n \in 0..MaxCellLen : \E s \in [1..n -> Chars] : Strip(s) = s /\ text = s
    /\ parsed = << >>
    /\ html = << >>
    /\ extracted = << >>
    /\ flow = NoFlow

\* value, unit = _parse_value(text)
ParseCell ==
    /\ parsed = << >>
    /\ parsed' = _parse_value(text)
    /\ UNCHANGED <<clock, cache, last_fetch, locked, waiters, pc, reply, seen, res,
                   lastGetAt, goodGetAt, everStored, text, html, extracted, flow>>

NextParse == ParseCell

SpecParse == InitParse /\ [][NextParse]_vars

\* ------------------------------------------------------------------------
\* _parse_device_messages_html called on its own, on every document of two
\* tables that share at most MaxRows rows; the first table may lack a tbody.
\* ------------------------------------------------------------------------
\* Texts of first cells; get_text(strip=True) takes the blank off the second.
NameCells == {<<"P">>, <<"E", " ">>}

\* Texts of second cells: W, Wh, kWh, no unit, no number.
ValueCells == {<<"2", "W">>, <<"3", "W", "h">>, <<"1", "k", "W", "h">>, <<"7">>, <<"x">>}

RowSet ==
    {<<n>> : n \in NameCells} \cup {<<n, v>> : n \in NameCells, v \in ValueCells}

\* The document that has the first k of the rows rs in a table with a tbody
\* or, for b false, without one, and the others in a second table with one.
Doc(rs, k, b) ==
    <<[tbody |-> b, rows |-> SubSeq(rs, 1, k)],
      [tbody |-> TRUE, rows |-> SubSeq(rs, k + 1, Len(rs))]>>

InitExtract ==
    /\ Idle
    /\ text = << >>
    /\ parsed = << >>
    /\ \E n \in 0..MaxRows : \E rs \in [1..n -> RowSet] :
           \E k \in 0..n : \E b \in BOOLEAN : html = Doc(rs, k, b)
    /\ extracted = << >>
    /\ flow = NoFlow

\* data = _parse_device_messages_html(html)
Extract ==
    /\ extracted = << >>
    /\ extracted' = <<_parse_device_messages_html(html)>>
    /\ UNCHANGED <<clock, cache, last_fetch, locked, waiters, pc, reply, seen, res,
                   lastGetAt, goodGetAt, everStored, text, parsed, html, flow>>

NextExtract == Extract

SpecExtract == InitExtract /\ [][NextExtract]_vars

\* ------------------------------------------------------------------------
\* config_flow.py: the user step of the config flow and its probe of
\* /deviceMessages.  Here a body is the text of the page, character by
\* character.
\* ------------------------------------------------------------------------
Upper == <<"A", "B", "C", "D", "E", "F", "G", "H", "I", "J", "K", "L", "M",
           "N", "O", "P", "Q", "R", "S", "T", "U", "V", "W", "X", "Y", "Z">>

Lower == <<"a", "b", "c", "d", "e", "f", "g", "h", "i", "j", "k", "l", "m",
           "n", "o", "p", "q", "r", "s", "t", "u", "v", "w", "x", "y", "z">>

\* html.lower()
ToLower(s) ==
    [i \in 1..Len(s) |->
        IF \E k \in 1..26 : Upper[k] = s[i]
        THEN Lower[CHOOSE k \in 1..26 : Upper[k] = s[i]]
        ELSE s[i]]

\* sub in s
Contains(sub, s) ==
    \E i \in 1..(Len(s) - Len(sub) + 1) : SubSeq(s, i, i + Len(sub) - 1) = sub

\* s.split('.')
Split(s) ==
    LET dots == {i \in 1..Len(s) : s[i] = "."}
        cuts == {0} \cup dots \cup {Len(s) + 1}
        from(n) == CHOOSE c \in cuts : Cardinality({d \in cuts : d < c}) = n - 1
        upto(n) == CHOOSE c \in cuts : Cardinality({d \in cuts : d < c}) = n
    IN  [n \in 1..(Cardinality(dots) + 1) |-> SubSeq(s, from(n) + 1, upto(n) - 1)]

\* x.isdigit()
IsDigits(x) == x # << >> /\ \A k \in 1..Len(x) : IsDigit(x[k])

validate_ipv4(s) ==
    LET a == Split(s)
    IN  /\ Len(a) = 4
        /\ \A n \in 1..4 : IsDigits(a[n]) /\ DigitsVal(a[n], 1, Len(a[n]) + 1) <= 255

\* What the user may type into the form.
Ips ==
    {<<"1", ".", "2", ".", "3", ".", "4">>,
     <<"1", "0", ".", "0", ".", "0", ".", "2", "5", "5">>,
     <<"1", ".", "2", ".", "3">>,
     <<"1", ".", "2", ".", "3", ".", "2", "5", "6">>,
     <<"1", ".", ".", "3", ".", "4">>,
     <<"a", ".", "2", ".", "3", ".", "4">>}

\* Pages the probed host may answer with.
Pages ==
    {<< >>,
     <<"P", "o", "w", "e", "r">>,
     <<"<", "t", "d", ">", "p", "o", "w", "e", "r", "<">>,
     <<"P", "O", "W", "E", "R", " ", "2", "W">>,
     <<"p", "o", "w", " ", "e", "r">>,
     <<"N", "o", "t", " ", "F", "o", "u", "n", "d">>}

ProbeStatuses == {200, 404, 500}

\* An answer with a status and a page; a timeout or a connection error of
\* the GET; a 200 whose body response.text() cannot decode.
ProbeReplies ==
    {[kind |-> "response", status |-> st, body |-> b] : st \in ProbeStatuses, b \in Pages}
        \cup {[kind |-> k, status |-> 0, body |-> << >>] : k \in {"timeout", "connection_error"}}
        \cup {[kind |-> "decode_error", status |-> 200, body |-> << >>]}

\* Mutant: the probe looks at the status alone.
ProbeOk_StatusOnly(r) == r.kind = "response" /\ r.status = 200

\* if response.status == 200: return "power" in html.lower()
ProbeOk(r) ==
    /\ r.kind = "response"
    /\ r.status = 200
    /\ Contains(<<"p", "o", "w", "e", "r">>, ToLower(r.body))

\* except Exception as e
ProbeCaught(r) == r.kind \in {"timeout", "connection_error", "decode_error"}

\* async_step_user up to its await: self.data = user_input, validate_ipv4.
Submit(input) ==
    /\ flow.step = "form"
    /\ flow' = IF validate_ipv4(input)
               THEN [flow EXCEPT !.step = "probing", !.ip = input, !.errors = ""]
               ELSE [flow EXCEPT !.ip = input, !.errors = "invalid_ip"]
    /\ UNCHANGED <<clock, cache, last_fetch, locked, waiters, pc, reply, seen, res,
                   lastGetAt, goodGetAt, everStored, text, parsed, html, extracted>>

\* validate_device_messages returns, and async_step_user runs to its end.
ProbeAnswer(r) ==
    /\ flow.step = "probing"
    /\ LET raised == r.kind # "response" /\ ~ProbeCaught(r)
           ok == ~raised /\ ProbeOk(r)
       IN  flow' = [flow EXCEPT !.reply = r, !.ok = ok, !.raised = raised,
                                !.step = IF raised THEN "aborted"
                                         ELSE IF ok THEN "created" ELSE "form",
                                !.errors = IF raised \/ ok THEN ""
                                           ELSE "invalid_device_messages"]
    /\ UNCHANGED <<clock, cache, last_fetch, locked, waiters, pc, reply, seen, res,
                   lastGetAt, goodGetAt, everStored, text, parsed, html, extracted>>

NextFlow ==
    \/ \E input \in Ips : Submit(input)
    \/ \E r \in ProbeReplies : ProbeAnswer(r)

SpecFlow == Init /\ [][NextFlow]_vars

\* ------------------------------------------------------------------------
\* Properties
\* ------------------------------------------------------------------------
InFlight == {t \in Tasks : pc[t] = "fetching"}

Dispatches(t) == pc[t] # "fetching" /\ pc'[t] = "fetching"

Completes(t) == pc[t] = "fetching" /\ pc'[t] # "fetching"

AllReturned == \A t \in Tasks : pc[t] = "returned"

GetsSent == Cardinality({t \in Tasks : res[t] # "none"})

\* C1: at most one GET is in flight at any moment, and a task with a GET in
\* flight holds the lock.
C1_OneFetchInFlight ==
    /\ Cardinality(InFlight) <= 1
    /\ InFlight # {} => locked

\* C1 witness: one call has its GET in flight while another call waits for the lock.
C1_Witness ==
    \E t, u \in Tasks : pc[t] = "fetching" /\ pc[u] = "waiting" /\ locked

C3_FailureKeepsCache ==
    [][\A t \in Tasks :
          (Completes(t) /\ reply[t].kind \in {"timeout", "connection_error", "decode_error"})
              => (cache' = cache /\ last_fetch' = last_fetch /\ seen'[t] = cache)]_vars

\* C3 witness: a call whose GET timed out has returned and the readings are still cached.
C3_Witness ==
    \E t \in Tasks : pc[t] = "returned" /\ res[t] = "timeout"
                     /\ DOMAIN cache # {} /\ seen[t] = cache /\ last_fetch < clock

\* C4 as stated: a response with a status other than 200 leaves the cache and
\* the timestamp untouched; a 200 response replaces the one and advances the other.
C4_Non200IsFailure ==
    [][\A t \in Tasks :
          (Completes(t) /\ reply[t].kind = "response")
              => IF reply[t].status = 200
                 THEN cache' = _parse_device_messages_html(reply[t].body) /\ last_fetch' = clock
                 ELSE cache' = cache /\ last_fetch' = last_fetch]_vars

AtHalfTTL == everStored /\ clock = last_fetch + TTL \div 2

AfterTTL == everStored /\ clock = last_fetch + TTL + 1

Alone(t) == \A u \in Tasks \ {t} : pc[u] \in {"idle", "returned"}

\* C6 as stated: after a fetch stored at T, a call at T + ttl/2 dispatches no
\* GET and changes nothing, and a single call at T + ttl + 1 dispatches one GET.
C6_Original ==
    [][\A t \in Tasks :
          /\ (Begin(t) /\ AtHalfTTL)
                => /\ pc'[t] = "returned" /\ res'[t] = "none"
                   /\ cache' = cache /\ last_fetch' = last_fetch /\ lastGetAt' = lastGetAt
          /\ (Begin(t) /\ AfterTTL /\ Alone(t))
                => pc'[t] = "fetching" /\ res'[t] = "pending" /\ lastGetAt' = clock]_vars

\* C6 amended: the first half holds when the stored mapping is not empty.
C6_Freshness ==
    [][\A t \in Tasks :
          /\ (Begin(t) /\ AtHalfTTL /\ DOMAIN cache # {})
                => /\ pc'[t] = "returned" /\ res'[t] = "none"
                   /\ cache' = cache /\ last_fetch' = last_fetch /\ lastGetAt' = lastGetAt
          /\ (Begin(t) /\ AfterTTL /\ Alone(t))
                => pc'[t] = "fetching" /\ res'[t] = "pending" /\ lastGetAt' = clock]_vars

\* C6 witness: readings were stored at T; one call has since returned them
\* without a GET and another has dispatched a GET at T + ttl + 1.
C6_Witness ==
    \E t, u \in Tasks :
        /\ pc[t] = "fetching" /\ lastGetAt = last_fetch + TTL + 1 /\ everStored
        /\ pc[u] = "returned" /\ res[u] = "none" /\ seen[u] = cache /\ DOMAIN cache # {}

C8_LockReleased ==
    /\ locked => \E t \in Tasks : pc[t] = "fetching"
    /\ (\A t \in Tasks : pc[t] \in {"idle", "returned"}) => (~locked /\ waiters = << >>)

\* C8 witness: every call has returned, one through the failure path and one
\* through the replacement of the cache, and the lock is free.
C8_Witness ==
    /\ AllReturned
    /\ ~locked
    /\ \E t, u \in Tasks : res[t] \in ExceptionKinds /\ res[u] = "rows"

\* C9: the cache and the timestamp change only in the step in which the task
\* holding the lock comes back from its GET, and that step sets both.
C9_AtomicReplace ==
    [][(cache' # cache \/ last_fetch' # last_fetch)
          => \E t \in Tasks :
                /\ pc[t] = "fetching" /\ locked /\ pc'[t] = "returned"
                /\ reply[t].kind = "response"
                /\ cache' = _parse_device_messages_html(reply[t].body)
                /\ last_fetch' = clock]_vars

\* C9 witness: a call has just replaced the cache and stamped the time.
C9_Witness ==
    \E t \in Tasks : /\ pc[t] = "returned" /\ res[t] = "rows"
                     /\ last_fetch = clock /\ clock > 0 /\ seen[t] = cache

\* C10: the cache is the empty mapping or the extraction of one response body.
C10_SnapshotFromOneBody ==
    \/ cache = EmptyMap
    \/ \E b \in Bodies : cache = _parse_device_messages_html(b)

\* C10 witness: the readings of one page were cached and read, and the cache
\* now holds the readings of another page.
C10_Witness ==
    /\ cache = _parse_device_messages_html(DocB)
    /\ \E u \in Tasks : seen[u] = _parse_device_messages_html(DocA)

\* C11: a consumer outside a call can always read data, also while a GET is
\* in flight, and the read changes neither the cache, the timestamp, the
\* lock and its queue, any call's position, nor the GETs dispatched.
C11_ReadIsPure ==
    [][\A t \in Tasks :
          /\ pc[t] \in {"idle", "returned"} => ENABLED ReadData(t)
          /\ ReadData(t) => /\ seen'[t] = cache
                            /\ UNCHANGED <<cache, last_fetch, locked, waiters, pc,
                                           reply, lastGetAt>>]_vars

\* C11 witness: a sensor that has not called yet holds the readings it read
\* while another sensor's GET is in flight.
C11_Witness ==
    \E t, u \in Tasks : /\ pc[t] = "fetching" /\ locked
                        /\ pc[u] = "idle" /\ seen[u] = cache /\ DOMAIN cache # {}

\* ------------------------------------------------------------------------
\* The value parser as the specification words it, written without the
\* matching operators of the model.
\* ------------------------------------------------------------------------
\* optional sign, digits, optional "." + digits
IsSignedDecimal(s) ==
    LET body == IF s # << >> /\ s[1] \in {"-", "+"} THEN Tail(s) ELSE s
        dots == {k \in 1..Len(body) : body[k] = "."}
    IN  /\ body # << >>
        /\ \A k \in 1..Len(body) : IsDigit(body[k]) \/ body[k] = "."
        /\ Cardinality(dots) <= 1
        /\ IsDigit(body[1])
        /\ IsDigit(body[Len(body)])

\* Where the cell's trailing "(number)" opens, once trailing whitespace is
\* left out; empty when the cell does not end in one.
ParenOpens(s) ==
    LET r == Strip(s)
    IN  {i \in 1..Len(r) : /\ r[i] = "("
                           /\ r[Len(r)] = ")"
                           /\ IsSignedDecimal(SubSeq(r, i + 1, Len(r) - 1))}

\* The lengths of the signed decimal numbers the cell starts with.
LeadingNumbers(s) == {j \in 1..Len(s) : IsSignedDecimal(SubSeq(s, 1, j))}

\* What the three rules, in their order, say the cell yields.
Expected(s) ==
    IF ParenOpens(s) # {}
    THEN LET r == Strip(s)
             i == CHOOSE k \in ParenOpens(s) : TRUE
         IN  <<ToFloat(r, i + 1, Len(r)), NoneUnit>>
    ELSE IF LeadingNumbers(s) # {}
    THEN LET j == CHOOSE k \in LeadingNumbers(s) : \A m \in LeadingNumbers(s) : m <= k
             c == EndOfSpaces(s, j + 1)
             d == EndOfUnit(s, c)
         IN  <<ToFloat(s, 1, j + 1),
               IF d > c THEN SubSeq(s, c, d - 1) ELSE NoneUnit>>
    ELSE <<NoneVal, NoneUnit>>

\* C12: for every cell text the parser yields what the three rules yield in
\* their order: the trailing parenthesized number without a unit; otherwise
\* the leading number with the token after it as unit, whatever follows;
\* otherwise (null, null).
C12_Original == parsed # << >> => parsed = Expected(text)

\* ------------------------------------------------------------------------
\* The extractor, seen from the document
\* ------------------------------------------------------------------------
RECURSIVE RowsOf(_)
\* The rows of the tables that have a tbody, in document order.
RowsOf(tables) ==
    IF tables = << >> THEN << >>
    ELSE (IF Head(tables).tbody THEN Head(tables).rows ELSE << >>) \o RowsOf(Tail(tables))

\* What the value parser makes of a row's second cell.
Reading(row) == _parse_value(Strip(row[2]))

\* The positions of the rows with two cells or more.
TwoCells(rows) == {i \in 1..Len(rows) : Len(rows[i]) >= 2}

\* The positions of the rows with two cells whose value is not null.
Kept(rows) == {i \in TwoCells(rows) : Reading(rows[i])[1] # NoneVal}

\* The positions in I of the rows named name.
Named(rows, I, name) == {i \in I : Strip(rows[i][1]) = name}

Last(I) == CHOOSE i \in I : \A j \in I : j <= i

\* The decimal a is the decimal b divided by 1000.
IsThousandth(a, b) == a[1] * 1000 * Pow10(b[2]) = b[1] * Pow10(a[2])

\* The entry a reading is to be stored as.
Stored(p) ==
    IF p[2] = <<"W", "h">> THEN <<DivThousand(p[1]), <<"k", "W", "h">>>> ELSE p

\* C13: the names in the extracted snapshot are those of the rows with two
\* cells whose second cell parses to a value, so a row with one cell and a
\* row with a null value add nothing, and no entry has a null value.
C13_NoNullValue ==
    extracted # << >> =>
        /\ DOMAIN extracted[1] =
               {Strip(RowsOf(html)[i][1]) : i \in Kept(RowsOf(html))}
        /\ \A name \in DOMAIN extracted[1] : extracted[1][name][1] # NoneVal

\* C13 for the cache: no cached snapshot has an entry with a null value.
C13_CacheNoNull == \A name \in DOMAIN cache : cache[name][1] # NoneVal

\* C13 witness: a document with a one-cell row and a row without a number
\* has been extracted, and another of its rows made an entry.
C13_Witness ==
    /\ extracted # << >>
    /\ DOMAIN extracted[1] # {}
    /\ \E i \in 1..Len(RowsOf(html)) : Len(RowsOf(html)[i]) < 2
    /\ TwoCells(RowsOf(html)) \ Kept(RowsOf(html)) # {}

\* C14: no entry carries the unit Wh; an entry comes from a kept row of its
\* name, as a thousandth of the value with unit kWh when the row's unit is
\* Wh, and as the parsed value and unit themselves otherwise.
C14_WhOnlyConversion ==
    extracted # << >> =>
        \A name \in DOMAIN extracted[1] :
            /\ extracted[1][name][2] # <<"W", "h">>
            /\ \E i \in Named(RowsOf(html), Kept(RowsOf(html)), name) :
                   IF Reading(RowsOf(html)[i])[2] = <<"W", "h">>
                   THEN /\ extracted[1][name][2] = <<"k", "W", "h">>
                        /\ IsThousandth(extracted[1][name][1], Reading(RowsOf(html)[i])[1])
                   ELSE extracted[1][name] = Reading(RowsOf(html)[i])

\* C14 witness: a snapshot holds 3 Wh as 0.003 kWh next to a reading in W.
C14_Witness ==
    /\ extracted # << >>
    /\ \E a, b \in DOMAIN extracted[1] :
           /\ extracted[1][a] = <<<<3, 3>>, <<"k", "W", "h">>>>
           /\ extracted[1][b] = <<<<2, 0>>, <<"W">>>>

HasPower(body) ==
    \E i \in 1..(Len(body) - 4) :
        /\ body[i] \in {"p", "P"}
        /\ body[i + 1] \in {"o", "O"}
        /\ body[i + 2] \in {"w", "W"}
        /\ body[i + 3] \in {"e", "E"}
        /\ body[i + 4] \in {"r", "R"}

\* C16 as stated: the probe succeeds exactly when the answer has status 200,
\* and it does not raise.
C16_Original ==
    [][\A r \in ProbeReplies :
          ProbeAnswer(r) => /\ flow'.ok <=> (r.kind = "response" /\ r.status = 200)
                            /\ ~flow'.raised]_vars

\* C16: the probe succeeds exactly when the answer has status 200 and a body
\* that decodes and has the word power in it in whatever case; on every
\* other answer, timeout or error it fails, and it does not raise: the form
\* is shown again with invalid_device_messages.
C16_ProbeSucceeds ==
    [][\A r \in ProbeReplies :
          ProbeAnswer(r) =>
              /\ flow'.ok <=> /\ r.kind = "response"
                              /\ r.status = 200
                              /\ HasPower(r.body)
              /\ ~flow'.raised
              /\ flow'.step = (IF flow'.ok THEN "created" ELSE "form")
              /\ flow'.errors = (IF flow'.ok THEN "" ELSE "invalid_device_messages")]_vars

\* C16 witness: a 200 answer whose page spells the word with capitals has
\* made the flow create the entry.
C16_Witness ==
    /\ flow.step = "created"
    /\ flow.ok
    /\ flow.reply.status = 200
    /\ ~Contains(<<"p", "o", "w", "e", "r">>, flow.reply.body)

\* ------------------------------------------------------------------------
\* The two looks at the cache
\* ------------------------------------------------------------------------
\* C17: a call returns at once, leaving the lock, its queue, the GETs sent,
\* the snapshot and the timestamp alone, exactly when the snapshot is not
\* empty and younger than TTL; on an empty snapshot, whatever its age, a
\* starting call dispatches a GET or queues for the lock, and a call that
\* gets the lock dispatches one.
C17_FreshReturnsAtOnce ==
    [][\A t \in Tasks :
          /\ Begin(t) =>
                /\ (/\ pc'[t] = "returned"
                    /\ UNCHANGED <<locked, waiters, lastGetAt, cache, last_fetch, reply>>)
                      <=> (DOMAIN cache # {} /\ clock - last_fetch < TTL)
                /\ DOMAIN cache = {} =>
                      \/ pc'[t] = "fetching" /\ locked' /\ lastGetAt' = clock
                      \/ /\ pc'[t] = "waiting"
                         /\ locked \/ waiters # << >>
                         /\ waiters' = Append(waiters, t)
          /\ (Resume(t) /\ DOMAIN cache = {}) =>
                pc'[t] = "fetching" /\ locked' /\ lastGetAt' = clock]_vars

\* C17 witness: a fetch stored an empty snapshot, and a GET is in flight
\* that was dispatched less than TTL after it.
C17_Witness ==
    /\ everStored
    /\ DOMAIN cache = {}
    /\ lastGetAt - last_fetch < TTL
    /\ lastGetAt >= last_fetch
    /\ \E t \in Tasks : pc[t] = "fetching" /\ res[t] = "pending"

\* C18: a call that waited for the lock and gets it when the snapshot is not
\* empty and younger than TTL releases the lock, waking the next in the
\* queue, and returns the snapshot; it dispatches no GET and changes neither
\* the snapshot nor the timestamp.
C18_RecheckUnderLock ==
    [][\A t \in Tasks :
          (Resume(t) /\ DOMAIN cache # {} /\ clock - last_fetch < TTL) =>
              /\ pc'[t] = "returned"
              /\ seen'[t] = cache
              /\ ~locked'
              /\ \A u \in Tasks \ {t} : pc'[u] # "fetching"
              /\ waiters' # << >> => pc'[Head(waiters')] = "woken"
              /\ UNCHANGED <<cache, last_fetch, lastGetAt, reply>>]_vars

\* C18 witness: of the calls issued together on a stale instance one has
\* fetched readings; another, which had to wait for the lock, has returned
\* them without a GET while they were fresh, and the lock is free.
C18_Witness ==
    /\ ~locked
    /\ waiters = << >>
    /\ DOMAIN cache # {}
    /\ clock - last_fetch < TTL
    /\ lastGetAt = BurstAt
    /\ \E t, u \in Tasks :
           /\ pc[t] = "returned" /\ res[t] = "rows"
           /\ pc[u] = "returned" /\ res[u] = "none" /\ seen[u] = cache

\* ------------------------------------------------------------------------
\* Progress
\* ------------------------------------------------------------------------
InCall(t) == pc[t] \in {"waiting", "woken", "fetching"}

\* The step that ends FetchDoneReady(t) is FetchDone(t): what makes the last
\* conjunct of Fairness the weak fairness of FetchDone(t).
FetchDoneEndsReady ==
    [][\A t \in Tasks : (FetchDoneReady(t) /\ ~FetchDoneReady(t)') => FetchDone(t)]_vars

\* C19: every call that has started returns in the end, whether it waits
\* for the lock, has been handed it, or has its GET in flight, and however
\* the GETs before it ended.
C19_EveryCallReturns ==
    \A t \in Tasks : InCall(t) ~> pc[t] \in {"returned", "raised"}

\* C19 witness: a GET has failed and its caller has returned; the lock has
\* been handed to the call at the head of the queue.
C19_Witness ==
    \E t, u \in Tasks :
        /\ pc[t] = "returned" /\ res[t] \in ExceptionKinds
        /\ pc[u] = "woken" /\ ~locked /\ Head(waiters) = u
====
